---- MODULE Spec2Model ----
(***************************************************************************)
(* Model of run() in src/index.ts: the single forward pass over the        *)
(* used-non-entry files of a project that records unused exports, types,   *)
(* namespace members and duplicate exports, and renders progress.          *)
(*                                                                         *)
(* The parsing engine (ts-morph) is an oracle: the files it returns, their *)
(* exported declarations, each declaration's shape, type, JSDoc tag and    *)
(* references are inputs, drawn from the bounded sets below.               *)
(***************************************************************************)
EXTENDS Integers, Sequences, FiniteSets, TLC

VARIABLES configuration, unusedProductionFiles, usedNonEntryFiles,
          issues, counters, lines, fileIndex, sourceFile, position, pc

vars == <<configuration, unusedProductionFiles, usedNonEntryFiles,
          issues, counters, lines, fileIndex, sourceFile, position, pc>>

----------------------------------------------------------------------------
(* Bounds of the model *)

\* most unused production files in a project
MaxUnused == 2
\* most used-non-entry files in a project
MaxFiles == 1

----------------------------------------------------------------------------
(* Paths.  A path is a record: abs tells an absolute path from a relative  *)
(* one, segs are its segments.                                             *)

AbsPath(segs) == [abs |-> TRUE, segs |-> segs]

RECURSIVE CommonPrefix(_, _)
CommonPrefix(s, t) ==
  IF s = <<>> \/ t = <<>> \/ Head(s) # Head(t) THEN 0
  ELSE 1 + CommonPrefix(Tail(s), Tail(t))

RECURSIVE Ups(_)
Ups(n) == IF n = 0 THEN <<>> ELSE <<"..">> \o Ups(n - 1)

\* path.relative(from, to) for two absolute paths: climb out of what is left
\* of from after the common prefix, then descend into what is left of to
Relative(from, to) ==
  LET n == CommonPrefix(from.segs, to.segs)
  IN  [abs |-> FALSE,
       segs |-> Ups(Len(from.segs) - n) \o SubSeq(to.segs, n + 1, Len(to.segs))]

\* the working directory a run is started from: a directory of the project
\* that holds none of its source files
Cwds == {AbsPath(<<"p", "docs">>)}

\* sourceFile.getFilePath() of the i-th used-non-entry file
FilePathOf(i) == AbsPath(<<"p", "src", "f" \o ToString(i)>>)

\* a file of the project that is not a used-non-entry file (an entry file)
EntryPath == AbsPath(<<"p", "src", "main">>)

\* the i-th unused production file
UnusedPathOf(i) == AbsPath(<<"p", "old", "u" \o ToString(i)>>)

----------------------------------------------------------------------------
(* Declarations, as the parsing engine hands them out.                     *)
(*   node           identity of the declaration node                       *)
(*   kind           its syntax kind                                        *)
(*   hasIdentifier  whether an Identifier child/descendant exists          *)
(*   text           identifier.getText()                                   *)
(*   type           getType(declaration): "" stands for undefined          *)
(*   isPublic       ts.getJSDocPublicTag(declaration.compilerNode)         *)
(*   refs           identifier.findReferences(): a set of referenced       *)
(*                  symbols, each the set of file names of its references  *)

NoType == ""

NamedKinds == {"FunctionDeclaration", "ClassDeclaration", "TypeAliasDeclaration",
               "InterfaceDeclaration", "EnumDeclaration"}

\* The declarations the oracle returns for a node of file self.
\* an exported function no file refers to
UnreferencedFunction(self) ==
  [kind |-> "FunctionDeclaration", hasIdentifier |-> TRUE, type |-> NoType,
   isPublic |-> FALSE, refs |-> {}]
\* a bare exported name referred to in its own file only
LocalValue(self) ==
  [kind |-> "Identifier", hasIdentifier |-> TRUE, type |-> NoType,
   isPublic |-> FALSE, refs |-> {{self}}]
\* an exported interface referred to in its own file only
LocalInterface(self) ==
  [kind |-> "InterfaceDeclaration", hasIdentifier |-> TRUE, type |-> "interface",
   isPublic |-> FALSE, refs |-> {{self}}]
\* an exported type alias no file refers to
UnreferencedType(self) ==
  [kind |-> "TypeAliasDeclaration", hasIdentifier |-> TRUE, type |-> "type",
   isPublic |-> FALSE, refs |-> {}]
\* a member-access export referred to in its own file and in an entry file
ImportedMember(self) ==
  [kind |-> "PropertyAccessExpression", hasIdentifier |-> TRUE, type |-> NoType,
   isPublic |-> FALSE, refs |-> {{self}, {self, EntryPath}}]
\* a variable tagged @public, referred to in its own file only
PublicVariable(self) ==
  [kind |-> "VariableDeclaration", hasIdentifier |-> TRUE, type |-> NoType,
   isPublic |-> TRUE, refs |-> {{self}}]
\* export default function () {}: a named-declaration kind without a name
AnonymousFunction(self) ==
  [kind |-> "FunctionDeclaration", hasIdentifier |-> FALSE, type |-> NoType,
   isPublic |-> FALSE, refs |-> {}]
\* export default {}: no Identifier anywhere in the declaration
ObjectLiteral(self) ==
  [kind |-> "ObjectLiteralExpression", hasIdentifier |-> FALSE, type |-> NoType,
   isPublic |-> FALSE, refs |-> {}]

DeclarationShapes(self) ==
  { UnreferencedFunction(self), LocalValue(self), LocalInterface(self),
    UnreferencedType(self), ImportedMember(self), PublicVariable(self),
    AnonymousFunction(self), ObjectLiteral(self) }

\* the shapes of declarations that share a name with another declaration (overloads, merges)
MergedShapes(self) ==
  { UnreferencedFunction(self), LocalValue(self), LocalInterface(self) }

Declaration(node, text, shape) ==
  [node |-> node, kind |-> shape.kind, hasIdentifier |-> shape.hasIdentifier,
   text |-> text, type |-> shape.type, isPublic |-> shape.isPublic,
   refs |-> shape.refs]

\* sourceFile.getExportedDeclarations() is a Map in insertion order: a
\* sequence of entries, each an exported name and its list of declarations.
Entry(name, declarations) == [name |-> name, declarations |-> declarations]

\* The export maps of the files of a project.
\* Maps with one declaration node: no declaration of theirs is visited.
SingleExportMaps(self) ==
  LET D(n, t, s) == Declaration(n, t, s)
  IN  \* one name, one declaration
      { <<Entry("a", <<D(1, "a", UnreferencedFunction(self))>>)>> }
      \* two names bound to one declaration
      \cup { <<Entry("a", <<D(1, "a", LocalValue(self))>>),
               Entry("b", <<D(1, "a", LocalValue(self))>>)>> }

\* Maps with two declaration nodes.
ExportMaps(self) ==
  LET D(n, t, s) == Declaration(n, t, s)
      S == DeclarationShapes(self)
      M == MergedShapes(self)
  IN  \* one name, two declarations (overloads, merged declarations)
      { <<Entry("a", <<D(1, "a", s), D(2, "a", t)>>)>> : s \in M, t \in M }
      \* two names, one declaration each
      \cup { <<Entry("a", <<D(1, "a", s)>>), Entry("b", <<D(2, "b", t)>>)>> :
               s \in S, t \in {LocalInterface(self)} }
      \* two names bound to the two declarations of one merged name
      \cup { <<Entry("a", <<D(1, "a", LocalInterface(self)), D(2, "a", LocalValue(self))>>),
               Entry("b", <<D(1, "a", LocalInterface(self)), D(2, "a", LocalValue(self))>>)>> }
      \* three names, two of them bound to one declaration
      \cup { <<Entry("a", <<D(1, "a", s)>>), Entry("b", <<D(2, "b", t)>>),
               Entry("c", <<D(1, "a", s)>>)>> :
               s \in {LocalValue(self), LocalInterface(self)},
               t \in {UnreferencedFunction(self), ImportedMember(self)} }

\* the used-non-entry files the oracle may return at index i;
\* namespaceNodes is the length of findReferencingNamespaceNodes(sourceFile),
\* which is asked for only when a declaration of the file is visited
SourceFiles(i) ==
  { [filePath |-> FilePathOf(i), exportDeclarations |-> m, namespaceNodes |-> 0] :
      m \in SingleExportMaps(FilePathOf(i)) \cup { <<>> } }
  \cup
  { [filePath |-> FilePathOf(i), exportDeclarations |-> m, namespaceNodes |-> k] :
      m \in ExportMaps(FilePathOf(i)), k \in 0..1 }

NoFile == [filePath |-> AbsPath(<<>>), exportDeclarations |-> <<>>, namespaceNodes |-> 0]

----------------------------------------------------------------------------
(* Helpers on export maps *)

RECURSIVE Flat(_)
\* [...exportDeclarations.values()].flat(): every declaration, in visit order
Flat(m) == IF m = <<>> THEN <<>> ELSE Head(m).declarations \o Flat(Tail(m))

Range(s) == { s[i] : i \in DOMAIN s }

\* new Set([...exportDeclarations.values()].flat()): a Set of declaration
\* nodes, compared by identity
UniqueExportedSymbols(m) == { d.node : d \in Range(Flat(m)) }

\* the exported names of a file, one per entry of the Map
ExportedNames(m) == { e.name : e \in Range(m) }

RECURSIVE SelectSeq2(_, _)
\* the names of the entries of m bound to node n, in order
SelectSeq2(m, n) ==
  IF m = <<>> THEN <<>>
  ELSE (IF n \in { d.node : d \in Range(Head(m).declarations) }
        THEN <<Head(m).name>> ELSE <<>>) \o SelectSeq2(Tail(m), n)

RECURSIVE GroupsFrom(_, _, _)
GroupsFrom(m, ds, seen) ==
  IF ds = <<>> THEN <<>>
  ELSE IF Head(ds).node \in seen THEN GroupsFrom(m, Tail(ds), seen)
  ELSE (IF Len(SelectSeq2(m, Head(ds).node)) >= 2
        THEN <<SelectSeq2(m, Head(ds).node)>> ELSE <<>>)
       \o GroupsFrom(m, Tail(ds), seen \cup {Head(ds).node})

\* findDuplicateExportedNames(sourceFile): for each declaration, in
\* detection order, the export names bound to it, when there are two or more
findDuplicateExportedNames(f) ==
  GroupsFrom(f.exportDeclarations, Flat(f.exportDeclarations), {})

RECURSIVE Join(_)
\* symbols.join(',')
Join(symbols) ==
  IF symbols = <<>> THEN ""
  ELSE IF Len(symbols) = 1 THEN Head(symbols)
  ELSE Head(symbols) \o "," \o Join(Tail(symbols))

----------------------------------------------------------------------------
(* The results of a run *)

EmptyMap == [x \in {} |-> 0]

IssueTypes == {"exports", "types", "duplicates", "members"}

\* issues[issueType][key]?.[symbol] is set
Has(m, key, symbol) == key \in DOMAIN m /\ symbol \in DOMAIN m[key]

\* issues[issueType][key] = issues[issueType][key] ?? {};
\* issues[issueType][key][symbol] = issue
Put(m, key, symbol, issue) ==
  LET inner == IF key \in DOMAIN m THEN m[key] ELSE EmptyMap
      added == [s \in DOMAIN inner \cup {symbol} |->
                  IF s = symbol THEN issue ELSE inner[s]]
  IN  [k \in DOMAIN m \cup {key} |-> IF k = key THEN added ELSE m[k]]

\* the running context of a run: what addIssue reads and writes
Context == [issues |-> issues, counters |-> counters, lines |-> lines]

\* updateProcessingOutput(item): the lines handed to lineRewriter.update
\* (Math.floor((counter / total) * 100) is the integer quotient for the small
\* totals of this model)
updateProcessingOutput(cfg, unused, used, cnt, item) ==
  LET counter == Len(unused) + cnt.processed
      total == Len(unused) + Len(used)
      percentage == (counter * 100) \div total
      count(on, value, text) ==
        IF on THEN <<[text |-> text, value |-> value]>> ELSE <<>>
  IN  <<[text |-> "of files processed", percentage |-> percentage,
         counter |-> counter, total |-> total]>>
      \o count(cfg.include.files, Len(unused), "unused files")
      \o count(cfg.include.exports, cnt.exports, "unused exports")
      \o count(cfg.include.types, cnt.types, "unused types")
      \o count(cfg.include.members, cnt.members, "unused namespace members")
      \o count(cfg.include.duplicates, cnt.duplicates, "duplicate exports")
      \o (IF counter < total
          THEN <<[text |-> ""],
                 [text |-> "Processing", path |-> Relative(cfg.cwd, item.filePath)]>>
          ELSE <<>>)

\* addIssue(issueType, issue)
addIssue(ctx, issueType, issue) ==
  LET key == Relative(configuration.cwd, issue.filePath)
      cnt == [ctx.counters EXCEPT ![issueType] = @ + 1]
  IN  [issues |-> [ctx.issues EXCEPT ![issueType] = Put(@, key, issue.symbol, issue)],
       counters |-> cnt,
       lines |-> IF configuration.isShowProgress
                 THEN updateProcessingOutput(configuration, unusedProductionFiles,
                                             usedNonEntryFiles, cnt, issue)
                 ELSE ctx.lines]

RECURSIVE addDuplicatesPerName(_, _, _)
\* one issue per export name of a group instead of one per group
addDuplicatesPerName(ctx, filePath, groups) ==
  IF groups = <<>> THEN ctx
  ELSE IF Head(groups) = <<>> THEN addDuplicatesPerName(ctx, filePath, Tail(groups))
  ELSE addDuplicatesPerName(
         addIssue(ctx, "duplicates",
                  [filePath |-> filePath, symbol |-> Head(Head(groups)),
                   symbols |-> <<Head(Head(groups))>>]),
         filePath, <<Tail(Head(groups))>> \o Tail(groups))

RECURSIVE addDuplicates(_, _, _)
\* duplicateExports.forEach(symbols => addIssue('duplicates', ...))
addDuplicates(ctx, filePath, groups) ==
  IF groups = <<>> THEN ctx
  ELSE addDuplicates(
         addIssue(ctx, "duplicates",
                  [filePath |-> filePath, symbol |-> Join(Head(groups)),
                   symbols |-> Head(groups)]),
         filePath, Tail(groups))

----------------------------------------------------------------------------
(* One declaration of the current file *)

include == configuration.include

\* include.exports || include.types || include.members || include.duplicates
AnyAnalysis == include.exports \/ include.types \/ include.members \/ include.duplicates

\* include.exports || include.types || include.members
AnyUsage == include.exports \/ include.types \/ include.members

Declarations == Flat(sourceFile.exportDeclarations)

\* the declaration the pass is about to visit
declaration == Declarations[position]

\* the category filter: the declaration is of no enabled category
Filtered(d) ==
  /\ ~include.members
  /\ \/ ~include.types /\ d.type # NoType
     \/ ~include.exports /\ d.type = NoType

\* the @public opt-out
OptedOut(d) == configuration.jsDocOptions.isReadPublicTag /\ d.isPublic

\* getFirstChildByKindOrThrow / getLastChildByKindOrThrow find no Identifier
Throws(d) ==
  /\ d.kind \in NamedKinds \cup {"PropertyAccessExpression"}
  /\ ~d.hasIdentifier

\* identifier is set after the four branches
Identified(d) == d.kind = "Identifier" \/ d.hasIdentifier

\* the already-reported guard: looks the file up by its absolute path
Reported(iss, filePath, d) ==
  \/ include.exports /\ Has(iss.exports, filePath, d.text)
  \/ include.types /\ Has(iss.types, filePath, d.text)
  \/ include.members /\ Has(iss.members, filePath, d.text)

\* the declaration gets as far as identifier.findReferences()
ReachesQuery(iss, filePath, d) ==
  /\ ~Filtered(d) /\ ~OptedOut(d) /\ ~Throws(d) /\ Identified(d)
  /\ ~Reported(iss, filePath, d)

\* refFiles: the files of all references
RefFiles(d) == UNION d.refs

\* a reference from the declaring file is enough, other files are not looked at
isReferencedBySelf(f, d) == f.filePath \in RefFiles(d)

isReferencedOnlyBySelf(f, d) ==
  Cardinality(RefFiles(d)) = 1 /\ RefFiles(d) = {f.filePath}

\* the type of the declaration is looked at before the namespace references
ClassifyTypeFirst(f, d) ==
  IF Cardinality(d.refs) = 0 THEN "exports"
  ELSE IF ~isReferencedOnlyBySelf(f, d) THEN ""
  ELSE IF d.type # NoType THEN "types"
  ELSE IF f.namespaceNodes > 0 THEN "members"
  ELSE "exports"

\* the category a declaration that reached the query is reported under,
\* "" when it is not reported
Classify(f, d) ==
  IF Cardinality(d.refs) = 0 THEN "exports"
  ELSE IF ~isReferencedOnlyBySelf(f, d) THEN ""
  ELSE IF f.namespaceNodes > 0 THEN "members"
  ELSE IF d.type # NoType THEN "types"
  ELSE "exports"

\* the Issue built for a declaration
IssueOf(f, d, category) ==
  IF category = "types"
  THEN [filePath |-> f.filePath, symbol |-> d.text, symbolType |-> d.type]
  ELSE [filePath |-> f.filePath, symbol |-> d.text]

\* the body of declarations.forEach for one declaration
visitDeclaration(ctx, f, d) ==
  IF ReachesQuery(ctx.issues, f.filePath, d) /\ Classify(f, d) # ""
  THEN addIssue(ctx, Classify(f, d), IssueOf(f, d, Classify(f, d)))
  ELSE ctx

----------------------------------------------------------------------------
(* The run *)

Include == [files : {TRUE}, exports : BOOLEAN, types : BOOLEAN,
            members : BOOLEAN, duplicates : BOOLEAN]

\* the configurations of a run: every combination of the four analyses, with
\* and without progress output; unused files are always reported and the
\* @public tag is always honoured (a declaration may or may not carry it)
Configurations ==
  [cwd : Cwds, isShowProgress : BOOLEAN, include : Include,
   jsDocOptions : [isReadPublicTag : {TRUE}]]

Init ==
  /\ configuration \in Configurations
  /\ \E n \in 0..MaxUnused :
       unusedProductionFiles = [i \in 1..n |-> UnusedPathOf(i)]
  /\ \E n \in 0..MaxFiles :
       usedNonEntryFiles = [i \in 1..n |-> FilePathOf(i)]
  /\ issues = [files |-> Range(unusedProductionFiles), exports |-> EmptyMap,
               types |-> EmptyMap, duplicates |-> EmptyMap, members |-> EmptyMap]
  /\ counters = [files |-> Cardinality(issues.files), exports |-> 0, types |-> 0,
                 duplicates |-> 0, members |-> 0,
                 processed |-> Cardinality(issues.files)]
  /\ lines = <<>>
  /\ fileIndex = 1
  /\ sourceFile = NoFile
  /\ position = 1
  /\ pc = "file"

\* usedNonEntryFiles.forEach: the callback up to the declarations loop
VisitFile ==
  /\ pc = "file" /\ AnyAnalysis /\ fileIndex <= Len(usedNonEntryFiles)
  /\ \E f \in SourceFiles(fileIndex) :
       LET ctx == IF include.duplicates
                  THEN addDuplicates(Context, f.filePath, findDuplicateExportedNames(f))
                  ELSE Context
       IN  /\ sourceFile' = f
           /\ issues' = ctx.issues
           /\ counters' = ctx.counters
           /\ lines' = ctx.lines
           /\ position' = 1
           /\ IF ~AnyUsage
              THEN pc' = "processed" /\ fileIndex' = fileIndex
              ELSE IF Cardinality(UniqueExportedSymbols(f.exportDeclarations)) = 1
              THEN pc' = "file" /\ fileIndex' = fileIndex + 1
              ELSE IF Flat(f.exportDeclarations) = <<>>
              THEN pc' = "processed" /\ fileIndex' = fileIndex
              ELSE pc' = "declaration" /\ fileIndex' = fileIndex
  /\ UNCHANGED <<configuration, unusedProductionFiles, usedNonEntryFiles>>

\* declarations.forEach: one declaration
VisitDeclaration ==
  /\ pc = "declaration"
  /\ IF ~Filtered(declaration) /\ ~OptedOut(declaration) /\ Throws(declaration)
     THEN /\ pc' = "thrown"
          /\ UNCHANGED <<issues, counters, lines, position>>
     ELSE LET ctx == visitDeclaration(Context, sourceFile, declaration)
          IN  /\ issues' = ctx.issues
              /\ counters' = ctx.counters
              /\ lines' = ctx.lines
              /\ position' = position + 1
              /\ pc' = IF position = Len(Declarations) THEN "processed"
                       ELSE "declaration"
  /\ UNCHANGED <<configuration, unusedProductionFiles, usedNonEntryFiles,
                 fileIndex, sourceFile>>

\* counters.processed++ at the end of the callback
Processed ==
  /\ pc = "processed"
  /\ counters' = [counters EXCEPT !.processed = @ + 1]
  /\ fileIndex' = fileIndex + 1
  /\ pc' = "file"
  /\ UNCHANGED <<configuration, unusedProductionFiles, usedNonEntryFiles,
                 issues, lines, sourceFile, position>>

\* lineRewriter.resetLines() and return { issues, counters }
Return ==
  /\ pc = "file"
  /\ ~AnyAnalysis \/ fileIndex > Len(usedNonEntryFiles)
  /\ lines' = IF configuration.isShowProgress THEN <<>> ELSE lines
  /\ pc' = "returned"
  /\ UNCHANGED <<configuration, unusedProductionFiles, usedNonEntryFiles,
                 issues, counters, fileIndex, sourceFile, position>>

Next == VisitFile \/ VisitDeclaration \/ Processed \/ Return

Spec == Init /\ [][Next]_vars

----------------------------------------------------------------------------
(* Properties *)

\* the key addIssue files the issues of a source file under
KeyOf(f) == Relative(configuration.cwd, f.filePath)

UsageTypes == {"exports", "types", "members"}

\* the categories among exports, types and members holding an issue for
\* (key, symbol)
CategoriesOf(iss, key, symbol) == { c \in UsageTypes : Has(iss[c], key, symbol) }

AllKeys == UNION { DOMAIN issues[c] : c \in UsageTypes }

SymbolsAt(key) ==
  UNION { DOMAIN issues[c][key] : c \in { t \in UsageTypes : key \in DOMAIN issues[t] } }

\* the step visits a declaration that reaches the reference query
QueryStep == pc = "declaration" /\ ReachesQuery(issues, sourceFile.filePath, declaration)

\* the step leaves the issues and counters of the given categories alone
Untouched(cats) ==
  \A c \in cats : issues'[c] = issues[c] /\ counters'[c] = counters[c]

\* C1: after run(), every (file, symbol) has an Issue in at most one of
\* exports, types and members, also when a name has several declarations.
C1_ClassificationExclusive ==
  pc = "returned" =>
    \A key \in AllKeys : \A symbol \in SymbolsAt(key) :
      Cardinality(CategoriesOf(issues, key, symbol)) <= 1

\* C2: a visited file whose deduplicated exported names number exactly one
\* has no exports, types or members issue, however many declarations the
\* name has.
C2_SingleExportSkip ==
  (sourceFile # NoFile /\ Cardinality(ExportedNames(sourceFile.exportDeclarations)) = 1)
    => \A c \in UsageTypes : KeyOf(sourceFile) \notin DOMAIN issues[c]

\* C3: a declaration that reaches the reference query, has a reference, has
\* all its references in its own file, and whose file is referenced as a
\* namespace object, is recorded under members and leaves exports and types
\* alone, type-level or not.
C3_NamespacePriority ==
  [][(/\ QueryStep
      /\ declaration.refs # {}
      /\ RefFiles(declaration) = {sourceFile.filePath}
      /\ sourceFile.namespaceNodes > 0)
     => /\ Has(issues'.members, KeyOf(sourceFile), declaration.text)
        /\ issues'.members[KeyOf(sourceFile)][declaration.text] =
             [filePath |-> sourceFile.filePath, symbol |-> declaration.text]
        /\ counters'.members = counters.members + 1
        /\ Untouched({"exports", "types", "duplicates"})]_vars

\* a type-level declaration referenced by its own file only, in a file
\* referenced as a namespace object, was visited and sits under members only
C3_Witness ==
  /\ pc \in {"declaration", "processed"}
  /\ sourceFile.namespaceNodes > 0
  /\ \E k \in 1..(position - 1) :
       LET d == Declarations[k]
       IN  /\ d.type # NoType
           /\ d.refs # {}
           /\ RefFiles(d) = {sourceFile.filePath}
           /\ CategoriesOf(issues, KeyOf(sourceFile), d.text) = {"members"}

\* C4 as stated: every declaration referenced by its own file only, in a file
\* without namespace references, is recorded under types (type-level) or
\* exports (value-level), whether or not it reaches the reference query.
C4_FallbackOfEveryDeclaration ==
  [][(/\ pc = "declaration"
      /\ declaration.refs # {}
      /\ RefFiles(declaration) = {sourceFile.filePath}
      /\ sourceFile.namespaceNodes = 0)
     => Has(issues'[IF declaration.type # NoType THEN "types" ELSE "exports"],
            KeyOf(sourceFile), declaration.text)]_vars

\* C4 amended: a declaration that reaches the reference query and is
\* referenced by its own file only, in a file without namespace references,
\* is recorded under types with its symbolType when type-level and under
\* exports when value-level; a declaration with a reference in another file
\* records nothing.
C4_FallbackPriority ==
  [][/\ (/\ QueryStep
         /\ declaration.refs # {}
         /\ RefFiles(declaration) = {sourceFile.filePath}
         /\ sourceFile.namespaceNodes = 0)
        => IF declaration.type # NoType
           THEN /\ Has(issues'.types, KeyOf(sourceFile), declaration.text)
                /\ issues'.types[KeyOf(sourceFile)][declaration.text] =
                     [filePath |-> sourceFile.filePath, symbol |-> declaration.text,
                      symbolType |-> declaration.type]
                /\ counters'.types = counters.types + 1
                /\ Untouched({"exports", "members", "duplicates"})
           ELSE /\ Has(issues'.exports, KeyOf(sourceFile), declaration.text)
                /\ issues'.exports[KeyOf(sourceFile)][declaration.text] =
                     [filePath |-> sourceFile.filePath, symbol |-> declaration.text]
                /\ counters'.exports = counters.exports + 1
                /\ Untouched({"types", "members", "duplicates"})
     /\ (/\ pc = "declaration"
         /\ \E file \in RefFiles(declaration) : file # sourceFile.filePath)
        => Untouched(IssueTypes)]_vars

\* a type-level declaration sits under types only, a value-level one under
\* exports only, and a declaration referenced from an entry file under none
C4_Witness ==
  /\ pc = "processed"
  /\ sourceFile.namespaceNodes = 0
  /\ \E k \in 1..(position - 1) :
       LET d == Declarations[k]
       IN  /\ d.type # NoType /\ RefFiles(d) = {sourceFile.filePath}
           /\ CategoriesOf(issues, KeyOf(sourceFile), d.text) = {"types"}
           /\ issues.types[KeyOf(sourceFile)][d.text].symbolType = d.type
  /\ \E k \in 1..(position - 1) :
       LET d == Declarations[k]
       IN  /\ EntryPath \in RefFiles(d)
           /\ CategoriesOf(issues, KeyOf(sourceFile), d.text) = {}

\* export name n shares a declaration with another export name of the map
Shared(m, n) ==
  \E i, j \in DOMAIN m :
    /\ i # j /\ m[i].name = n
    /\ \E d \in Range(m[i].declarations) : \E e \in Range(m[j].declarations) :
         d.node = e.node

DuplicatesRecorded(groups, f, key, dups) ==
  LET found == IF key \in DOMAIN dups THEN dups[key] ELSE EmptyMap
  IN  /\ \A i \in DOMAIN groups :
           /\ Len(groups[i]) >= 2
           /\ Join(groups[i]) \in DOMAIN found
           /\ found[Join(groups[i])] =
                [filePath |-> f.filePath,
                 symbol |-> Join(groups[i]), symbols |-> groups[i]]
      /\ Cardinality(DOMAIN found) = Cardinality(Range(groups))
      /\ \A symbol \in DOMAIN found : \A n \in Range(found[symbol].symbols) :
           Shared(f.exportDeclarations, n)

\* C5: with duplicates enabled, visiting a file records for each group of two
\* or more export names bound to one declaration one duplicates Issue, keyed
\* by the names joined with commas in detection order, with the same symbols
\* list; counters.duplicates grows by one per group; names bound to a
\* declaration of their own are in no Issue; single-export files included.
C5_DuplicateGrouping ==
  [][(pc = "file" /\ pc' # "returned" /\ include.duplicates)
     => DuplicatesRecorded(findDuplicateExportedNames(sourceFile'), sourceFile',
                           KeyOf(sourceFile'), issues'.duplicates)
        /\ counters'.duplicates =
             counters.duplicates + Len(findDuplicateExportedNames(sourceFile'))
        /\ Untouched(UsageTypes)]_vars

\* a file exempted by the single-export skip has its one duplicates Issue
\* "a,b" for the names a and b bound to its one declaration
C5_Witness ==
  /\ pc = "file" /\ AnyUsage /\ include.duplicates
  /\ Cardinality(UniqueExportedSymbols(sourceFile.exportDeclarations)) = 1
  /\ ExportedNames(sourceFile.exportDeclarations) = {"a", "b"}
  /\ Has(issues.duplicates, KeyOf(sourceFile), "a,b")
  /\ issues.duplicates[KeyOf(sourceFile)]["a,b"].symbols = <<"a", "b">>
  /\ DOMAIN issues.duplicates[KeyOf(sourceFile)] = {"a,b"}
  /\ counters.duplicates = 1

\* C6: once an Issue for (file, identifier text) is under exports, types or
\* members, a later declaration of the file with that identifier text is
\* skipped: it adds no Issue and increments no counter.
C6_AlreadyReportedGuard ==
  [][(/\ pc = "declaration"
      /\ Identified(declaration)
      /\ CategoriesOf(issues, KeyOf(sourceFile), declaration.text) # {})
     => Untouched(IssueTypes)]_vars

\* C7: when an analysis is enabled, the run ends with counters.processed
\* grown by the number of used-non-entry files.
C7_ProcessedAccounting ==
  (pc = "returned" /\ AnyAnalysis)
    => counters.processed = Cardinality(issues.files) + Len(usedNonEntryFiles)

\* C8: the counter of a render is the unused files plus the used-non-entry
\* files already processed, it never exceeds the total, and the percentage
\* lies in 0..100 and never decreases.
C8_ProgressBound ==
  [][(/\ configuration.isShowProgress
      /\ \E c \in IssueTypes : counters'[c] # counters[c])
     => /\ lines'[1].counter = Len(unusedProductionFiles) + (fileIndex - 1)
        /\ lines'[1].counter <= lines'[1].total
        /\ lines'[1].total = Len(unusedProductionFiles) + Len(usedNonEntryFiles)
        /\ lines'[1].percentage = (100 * lines'[1].counter) \div lines'[1].total
        /\ lines'[1].percentage \in 0..100
        /\ Len(lines) > 0 => lines[1].percentage <= lines'[1].percentage]_vars

\* C9: a declaration without a locatable identifier, of whatever kind, is
\* skipped silently: no Issue, no error, and the pass goes on.
C9_NoIdentifierSkip ==
  [][(pc = "declaration" /\ ~Identified(declaration))
     => /\ Untouched(IssueTypes)
        /\ pc' \in {"declaration", "processed"}]_vars

\* C10: after run(), a category whose include flag is false holds no Issue
\* and its counter is 0.
C10_DisabledCategoryEmpty ==
  pc = "returned" =>
    \A c \in IssueTypes : ~include[c] => issues[c] = EmptyMap /\ counters[c] = 0

====
